---- MODULE Spec2Model ----
(***************************************************************************)
(* Model of cmd/bosun/database/error_data.go: the redis-backed store of    *)
(* alert failure state and error history.                                  *)
(*                                                                         *)
(* The redis keyspace is the record db.  Every conn.Do of the source is    *)
(* one atomic step of the calling process; a step may fail (connection or  *)
(* store error), in which case the command is not applied and the          *)
(* operation returns the error.  A call's entry (GetConnection, and        *)
(* json.Marshal where the source has it) is taken together with its first  *)
(* command, the deferred conn.Close together with its return.              *)
(***************************************************************************)
EXTENDS Integers, Sequences, FiniteSets, TLC

\* ------------------------------------------------------------------ bounds
\* The number of calls made in a run.
MaxCalls == 4
\* The number of calls made in a run of two callers.
MaxConcCalls == 3

\* ------------------------------------------------------------------ inputs
Procs == {"p1", "p2"}
Names == {"a", "b"}
\* A models.AlertError whose time.Time fields lie outside years 0..9999
\* cannot be marshalled by encoding/json.
BadEvent == "eBadYear"
GoodEvents == {"e1", "e2"}
Events == GoodEvents \cup {BadEvent}

NoName == "-"
NoEvent == "-"
NoBytes == <<>>
Nil == "nil"
EmptyMap == [x \in {} |-> <<>>]

\* json.Marshal(event): the bytes, or an error.
Marshal(e) ==
  IF e = BadEvent THEN [ok |-> FALSE, bytes |-> NoBytes]
  ELSE [ok |-> TRUE, bytes |-> <<"json", e>>]

\* json.Unmarshal(bytes, &AlertError{}): the event, or an error.
Unmarshal(b) ==
  IF Len(b) = 2 /\ b[1] = "json" THEN [ok |-> TRUE, ev |-> b[2]]
  ELSE [ok |-> FALSE, ev |-> NoEvent]

\* The orders in which SMEMBERS may list a set.
Orders(S) ==
  {s \in [1..Cardinality(S) -> S] : \A i, j \in 1..Cardinality(S) : s[i] = s[j] => i = j}

VARIABLES
  db,       \* the redis keyspace: failingAlerts, alertsWithErrors, errorEvents, errors
  proc,     \* per caller: position, operation, arguments, locals, result
  conns,    \* connections taken from the pool and not yet closed
  calls,    \* the number of calls entered so far
  pre,      \* history: the keyspace when the current unshared call was entered
  solo,     \* history: the caller whose call was entered with no other call in progress
            \*          and has run alone since, or "none"
  marked,   \* history: names whose MarkAlertFailure returned nil with no
            \*          MarkAlertSuccess/ClearAlert of the name or ClearAll applied since
  added,    \* history: per name, the events of its successful AddEvent calls, newest first
  onlyAdds, \* history: names written so far by successful, unshared AddEvent calls only
  cleared,  \* history: the names cleared by a ClearAlert (the name) or ClearAll (all names)
            \*          that returned nil, with no writing call entered since
  preMarked, \* history: marked when the current unshared call was entered
  faulty,   \* history: some store command has failed so far
  orig,     \* history: the keyspace when the first of the current run of attempts at one
            \*          call (same operation and arguments, each failed on the store) was entered
  overlap,  \* history: the calls entered since the last entry with no other call in progress,
            \*          that entry included
  partial,  \* history: the attempts of the current run of attempts that failed on their
            \*          second command
  logged    \* history: per name, the AddEvent/UpdateLastEvent calls that returned nil since
            \*          the last ClearAll or ClearAlert of the name that returned nil

vars == <<db, proc, conns, calls, pre, solo, marked, added, onlyAdds, cleared, preMarked,
          faulty, orig, partial, overlap, logged>>

InitProc ==
  [pc |-> "idle", op |-> "none", name |-> NoName, event |-> NoEvent,
   marshalled |-> NoBytes, alerts |-> <<>>, results |-> EmptyMap, failing |-> 0,
   ret |-> Nil, err |-> Nil, step |-> 0, fault |-> FALSE]

InitDb ==
  [failingAlerts |-> {}, alertsWithErrors |-> {}, errorEvents |-> <<>>,
   errors |-> [n \in Names |-> <<>>]]

Init ==
  /\ db = InitDb
  /\ proc = [p \in Procs |-> InitProc]
  /\ conns = 0
  /\ calls = 0
  /\ pre = InitDb
  /\ solo = "none"
  /\ marked = {}
  /\ added = [n \in Names |-> <<>>]
  /\ onlyAdds = Names
  /\ cleared = {}
  /\ preMarked = {}
  /\ faulty = FALSE
  /\ orig = InitDb
  /\ partial = 0
  /\ overlap = 0
  /\ logged = [n \in Names |-> 0]

\* ----------------------------------------------------------- control flow
\* conn := d.GetConnection()
GetConnection(c) == c + 1
\* Variant of Close: the connection is not given back.
CloseLeak(c) == c
\* defer conn.Close()
Close(c) == c - 1

Idle(p) == proc[p].pc \in {"idle", "done"}
CanCall(p) == Idle(p) /\ calls < MaxCalls
InProgress(p) == ~Idle(p)
Quiescent(p) == \A q \in Procs \ {p} : Idle(q)

\* The frame of a new call: op(name, event), no command issued yet.
Call(o, n, e) == [InitProc EXCEPT !.op = o, !.name = n, !.event = e]
\* One more conn.Do issued; fault records whether it failed.
Cmd(f, fail) == [f EXCEPT !.step = @ + 1, !.fault = fail]
Goto(f, label) == [f EXCEPT !.pc = label]
\* return v, er: the locals die with the frame.
Return(f, v, er) ==
  [f EXCEPT !.pc = "done", !.ret = v, !.err = er, !.marshalled = NoBytes,
            !.alerts = <<>>, !.results = EmptyMap, !.failing = 0]

\* History bookkeeping of a step of p that leaves its frame as f.
Observe(p, f) ==
  LET entry == Idle(p)
      retry == /\ proc[p].pc = "done" /\ proc[p].fault
               /\ proc[p].op = f.op /\ proc[p].name = f.name /\ proc[p].event = f.event
      returned == f.pc = "done" /\ f.err = Nil
  IN
  /\ faulty' = (faulty \/ f.fault)
  /\ orig' = IF entry /\ Quiescent(p) /\ ~retry THEN db ELSE orig
  /\ partial' = IF ~entry THEN partial
                ELSE IF ~retry THEN 0
                ELSE IF proc[p].step = 2 THEN partial + 1 ELSE partial
  /\ overlap' = IF ~entry THEN overlap ELSE IF Quiescent(p) THEN 1 ELSE overlap + 1
  /\ logged' = IF returned /\ f.op \in {"AddEvent", "UpdateLastEvent"}
                  THEN [logged EXCEPT ![f.name] = @ + 1]
                ELSE IF returned /\ f.op = "ClearAlert" THEN [logged EXCEPT ![f.name] = 0]
                ELSE IF returned /\ f.op = "ClearAll" THEN [n \in Names |-> 0]
                ELSE logged

SetProc(p, f) == proc' = [proc EXCEPT ![p] = f] /\ Observe(p, f)

\* History bookkeeping at the entry of a call by p.
Enter(p) ==
  /\ calls' = calls + 1
  /\ IF Quiescent(p) THEN pre' = db /\ solo' = p /\ preMarked' = marked
     ELSE pre' = pre /\ solo' = "none" /\ preMarked' = preMarked

\* Entry of a call that writes name n (Names for ClearAll) other than by AddEvent.
Taint(S) ==
  /\ onlyAdds' = onlyAdds \ S
  /\ added' = [n \in Names |-> IF n \in S THEN <<>> ELSE added[n]]


StoreErr == "store error"
SerErr == "serialization error"

\* ------------------------------------------- effects of the store commands
\* Variant of MarkAlertSuccessSREM: the name leaves alertsWithErrors as well.
MarkAlertSuccessSREMBoth(d, n) ==
  [d EXCEPT !.failingAlerts = @ \ {n}, !.alertsWithErrors = @ \ {n}]
\* SREM failingAlerts name
MarkAlertSuccessSREM(d, n) == [d EXCEPT !.failingAlerts = @ \ {n}]
\* SADD alertsWithErrors name
MarkAlertFailureSADD1(d, n) == [d EXCEPT !.alertsWithErrors = @ \cup {n}]
\* Variant of MarkAlertFailureSADD2: the second SADD names alertsWithErrors again.
MarkAlertFailureSADD2WrongKey(d, n) == [d EXCEPT !.alertsWithErrors = @ \cup {n}]
\* SADD failingAlerts name
MarkAlertFailureSADD2(d, n) == [d EXCEPT !.failingAlerts = @ \cup {n}]
\* Variant of UpdateLastEventLPOP: the head is not removed.
UpdateLastEventNoPop(d, n) == d
\* LPOP errors:name (no error on an empty or missing list)
UpdateLastEventLPOP(d, n) ==
  [d EXCEPT !.errors[n] = IF @ = <<>> THEN <<>> ELSE Tail(@)]
\* LPUSH errors:name marshalled
UpdateLastEventLPUSH(d, n, m) == [d EXCEPT !.errors[n] = <<m>> \o @]
\* Variant of UpdateLastEventLog: a name already in the log is not logged again.
UpdateLastEventLogOnce(d, n) ==
  IF \E i \in 1..Len(d.errorEvents) : d.errorEvents[i] = n THEN d
  ELSE [d EXCEPT !.errorEvents = <<n>> \o @]
\* LPUSH errorEvents name
UpdateLastEventLog(d, n) == [d EXCEPT !.errorEvents = <<n>> \o @]
\* Variant of AddEventLPUSH: RPUSH, the event goes to the tail.
AddEventRPUSH(d, n, m) == [d EXCEPT !.errors[n] = Append(@, m)]
\* LPUSH errors:name marshalled
AddEventLPUSH(d, n, m) == [d EXCEPT !.errors[n] = <<m>> \o @]
\* LPUSH errorEvents name
AddEventLog(d, n) == [d EXCEPT !.errorEvents = <<n>> \o @]
\* SREM alertsWithErrors name
ClearAlertSREM1(d, n) == [d EXCEPT !.alertsWithErrors = @ \ {n}]
\* SREM failingAlerts name
ClearAlertSREM2(d, n) == [d EXCEPT !.failingAlerts = @ \ {n}]
\* Variant of ClearAlertDEL: only the newest event is removed.
ClearAlertDELHead(d, n) == [d EXCEPT !.errors[n] = IF @ = <<>> THEN <<>> ELSE Tail(@)]
\* DEL errors:name
ClearAlertDEL(d, n) == [d EXCEPT !.errors[n] = <<>>]
\* Variant of ClearAlertLREM: LREM with count 1 removes the first match only.
ClearAlertLREMFirst(d, n) ==
  [d EXCEPT !.errorEvents =
     IF \E i \in 1..Len(@) : @[i] = n
     THEN LET i == CHOOSE i \in 1..Len(@) :
                     @[i] = n /\ \A j \in 1..(i - 1) : @[j] # n
          IN SubSeq(@, 1, i - 1) \o SubSeq(@, i + 1, Len(@))
     ELSE @]
\* LREM errorEvents 0 name: count 0 removes every element equal to name
ClearAlertLREM(d, n) ==
  [d EXCEPT !.errorEvents = SelectSeq(@, LAMBDA x : x # n)]
\* DEL errors:a
ClearAllDELHistory(d, a) == [d EXCEPT !.errors[a] = <<>>]
\* DEL alertsWithErrors
ClearAllDELWithErrors(d) == [d EXCEPT !.alertsWithErrors = {}]
\* Variant of ClearAllDELFailing: failingAlerts is kept.
ClearAllKeepFailing(d) == d
\* DEL failingAlerts
ClearAllDELFailing(d) == [d EXCEPT !.failingAlerts = {}]
\* Variant of ClearAllDELEvents: errorEvents is kept.
ClearAllKeepEvents(d) == d
\* DEL errorEvents
ClearAllDELEvents(d) == [d EXCEPT !.errorEvents = <<>>]

\* ------------------------------------------- replies of the store queries
\* SCARD failingAlerts
FailingCount(d) == Cardinality(d.failingAlerts)
\* LLEN errorEvents
EventCount(d) == Len(d.errorEvents)
\* SMEMBERS failingAlerts, as the map name -> true
FailingSet(d) == d.failingAlerts
\* SISMEMBER failingAlerts name
IsFailing(d, n) == n \in d.failingAlerts
\* Variant of LastEvent: redis.ErrNil is returned like any other error.
LastEventNoErrNil(d, n, fail) ==
  IF fail THEN [ret |-> Nil, err |-> StoreErr]
  ELSE IF d.errors[n] = <<>> THEN [ret |-> Nil, err |-> "redigo: nil returned"]
  ELSE IF Unmarshal(d.errors[n][1]).ok
       THEN [ret |-> Unmarshal(d.errors[n][1]).ev, err |-> Nil]
       ELSE [ret |-> Nil, err |-> SerErr]
\* LINDEX errors:name 0 and what GetLastEvent returns for it: the store's error,
\* absent (nil, nil) on an empty list (redis.ErrNil), else the decoded head.
LastEvent(d, n, fail) ==
  IF fail THEN [ret |-> Nil, err |-> StoreErr]
  ELSE IF d.errors[n] = <<>> THEN [ret |-> Nil, err |-> Nil]
  ELSE IF Unmarshal(d.errors[n][1]).ok
       THEN [ret |-> Unmarshal(d.errors[n][1]).ev, err |-> Nil]
       ELSE [ret |-> Nil, err |-> SerErr]
\* Variant of HistoryRows: LRANGE errors:a 1 -1 skips the newest row.
HistoryRowsFromSecond(d, a) == IF d.errors[a] = <<>> THEN <<>> ELSE Tail(d.errors[a])
\* LRANGE errors:a 0 -1
HistoryRows(d, a) == d.errors[a]
\* the decoded rows, in the order read
DecodeRows(rows) == [i \in 1..Len(rows) |-> Unmarshal(rows[i]).ev]
RowsDecodable(rows) == \A i \in 1..Len(rows) : Unmarshal(rows[i]).ok

\* ------------------------------------------------------------ the operations
MarkAlertSuccess(p) ==
  \E n \in Names, fail \in BOOLEAN :
    /\ CanCall(p)
    /\ db' = IF fail THEN db ELSE MarkAlertSuccessSREM(db, n)
    /\ SetProc(p, Return(Cmd(Call("MarkAlertSuccess", n, NoEvent), fail), Nil,
                         IF fail THEN StoreErr ELSE Nil))
    /\ conns' = Close(GetConnection(conns))
    /\ Enter(p)
    /\ marked' = IF fail THEN marked ELSE marked \ {n}
    /\ Taint({n})
    /\ cleared' = {}

\* Variant of MarkAlertFailureCheck: the error of the first SADD is dropped.
MarkAlertFailureIgnoreErr(f, fail) == Goto(f, "MarkAlertFailure2")
\* if err != nil { return err } after the first SADD
MarkAlertFailureCheck(f, fail) ==
  IF fail THEN Return(f, Nil, StoreErr) ELSE Goto(f, "MarkAlertFailure2")

MarkAlertFailure1(p) ==
  \E n \in Names, fail \in BOOLEAN :
    LET f == MarkAlertFailureCheck(Cmd(Call("MarkAlertFailure", n, NoEvent), fail), fail) IN
    /\ CanCall(p)
    /\ db' = IF fail THEN db ELSE MarkAlertFailureSADD1(db, n)
    /\ SetProc(p, f)
    /\ conns' = IF f.pc = "done" THEN Close(GetConnection(conns)) ELSE GetConnection(conns)
    /\ Enter(p)
    /\ Taint({n})
    /\ cleared' = {}
    /\ UNCHANGED marked

MarkAlertFailure2(p) ==
  \E fail \in BOOLEAN :
    /\ proc[p].pc = "MarkAlertFailure2"
    /\ db' = IF fail THEN db ELSE MarkAlertFailureSADD2(db, proc[p].name)
    /\ SetProc(p, Return(Cmd(proc[p], fail), Nil, IF fail THEN StoreErr ELSE Nil))
    /\ conns' = Close(conns)
    /\ marked' = IF fail THEN marked ELSE marked \cup {proc[p].name}
    /\ UNCHANGED <<calls, pre, preMarked, solo, added, onlyAdds, cleared>>

GetFailingAlertCounts1(p) ==
  \E fail \in BOOLEAN :
    /\ CanCall(p)
    /\ SetProc(p, IF fail
                  THEN Return(Cmd(Call("GetFailingAlertCounts", NoName, NoEvent), fail),
                              <<0, 0>>, StoreErr)
                  ELSE [Goto(Cmd(Call("GetFailingAlertCounts", NoName, NoEvent), fail),
                             "GetFailingAlertCounts2")
                          EXCEPT !.failing = FailingCount(db)])
    /\ conns' = IF fail THEN Close(GetConnection(conns)) ELSE GetConnection(conns)
    /\ Enter(p)
    /\ UNCHANGED <<db, marked, added, onlyAdds, cleared>>

GetFailingAlertCounts2(p) ==
  \E fail \in BOOLEAN :
    /\ proc[p].pc = "GetFailingAlertCounts2"
    /\ SetProc(p, IF fail
                  THEN Return(Cmd(proc[p], fail), <<0, 0>>, StoreErr)
                  ELSE Return(Cmd(proc[p], fail), <<proc[p].failing, EventCount(db)>>, Nil))
    /\ conns' = Close(conns)
    /\ UNCHANGED <<db, calls, pre, preMarked, solo, marked, added, onlyAdds, cleared>>

GetFailingAlerts(p) ==
  \E fail \in BOOLEAN :
    /\ CanCall(p)
    /\ SetProc(p, IF fail
                  THEN Return(Cmd(Call("GetFailingAlerts", NoName, NoEvent), fail), Nil, StoreErr)
                  ELSE Return(Cmd(Call("GetFailingAlerts", NoName, NoEvent), fail),
                              FailingSet(db), Nil))
    /\ conns' = Close(GetConnection(conns))
    /\ Enter(p)
    /\ UNCHANGED <<db, marked, added, onlyAdds, cleared>>

IsAlertFailing(p) ==
  \E n \in Names, fail \in BOOLEAN :
    /\ CanCall(p)
    /\ SetProc(p, IF fail
                  THEN Return(Cmd(Call("IsAlertFailing", n, NoEvent), fail), FALSE, StoreErr)
                  ELSE Return(Cmd(Call("IsAlertFailing", n, NoEvent), fail), IsFailing(db, n), Nil))
    /\ conns' = Close(GetConnection(conns))
    /\ Enter(p)
    /\ UNCHANGED <<db, marked, added, onlyAdds, cleared>>

GetLastEvent(p) ==
  \E n \in Names, fail \in BOOLEAN :
    /\ CanCall(p)
    /\ SetProc(p, Return(Cmd(Call("GetLastEvent", n, NoEvent), fail),
                         LastEvent(db, n, fail).ret, LastEvent(db, n, fail).err))
    /\ conns' = Close(GetConnection(conns))
    /\ Enter(p)
    /\ UNCHANGED <<db, marked, added, onlyAdds, cleared>>

UpdateLastEvent1(p) ==
  \E n \in Names, e \in Events, fail \in BOOLEAN :
    /\ CanCall(p)
    /\ IF ~Marshal(e).ok
       THEN /\ ~fail
            /\ db' = db
            /\ SetProc(p, Return(Call("UpdateLastEvent", n, e), Nil, SerErr))
            /\ conns' = Close(GetConnection(conns))
       ELSE /\ db' = IF fail THEN db ELSE UpdateLastEventLPOP(db, n)
            /\ SetProc(p, IF fail
                          THEN Return(Cmd(Call("UpdateLastEvent", n, e), fail), Nil, StoreErr)
                          ELSE [Goto(Cmd(Call("UpdateLastEvent", n, e), fail), "UpdateLastEvent2")
                                  EXCEPT !.marshalled = Marshal(e).bytes])
            /\ conns' = IF fail THEN Close(GetConnection(conns)) ELSE GetConnection(conns)
    /\ Enter(p)
    /\ Taint({n})
    /\ cleared' = {}
    /\ UNCHANGED marked

UpdateLastEvent2(p) ==
  \E fail \in BOOLEAN :
    /\ proc[p].pc = "UpdateLastEvent2"
    /\ db' = IF fail THEN db
             ELSE UpdateLastEventLPUSH(db, proc[p].name, proc[p].marshalled)
    /\ SetProc(p, IF fail THEN Return(Cmd(proc[p], fail), Nil, StoreErr)
                  ELSE Goto(Cmd(proc[p], fail), "UpdateLastEvent3"))
    /\ conns' = IF fail THEN Close(conns) ELSE conns
    /\ UNCHANGED <<calls, pre, preMarked, solo, marked, added, onlyAdds, cleared>>

UpdateLastEvent3(p) ==
  \E fail \in BOOLEAN :
    /\ proc[p].pc = "UpdateLastEvent3"
    /\ db' = IF fail THEN db ELSE UpdateLastEventLog(db, proc[p].name)
    /\ SetProc(p, Return(Cmd(proc[p], fail), Nil, IF fail THEN StoreErr ELSE Nil))
    /\ conns' = Close(conns)
    /\ UNCHANGED <<calls, pre, preMarked, solo, marked, added, onlyAdds, cleared>>

AddEvent1(p) ==
  \E n \in Names, e \in Events, fail \in BOOLEAN :
    /\ CanCall(p)
    /\ IF ~Marshal(e).ok
       THEN /\ ~fail
            /\ db' = db
            /\ SetProc(p, Return(Call("AddEvent", n, e), Nil, SerErr))
            /\ conns' = Close(GetConnection(conns))
            /\ Taint({n})
       ELSE /\ db' = IF fail THEN db ELSE AddEventLPUSH(db, n, Marshal(e).bytes)
            /\ SetProc(p, IF fail
                          THEN Return(Cmd(Call("AddEvent", n, e), fail), Nil, StoreErr)
                          ELSE [Goto(Cmd(Call("AddEvent", n, e), fail), "AddEvent2")
                                  EXCEPT !.marshalled = Marshal(e).bytes])
            /\ conns' = IF fail THEN Close(GetConnection(conns)) ELSE GetConnection(conns)
            /\ IF fail THEN Taint({n}) ELSE UNCHANGED <<added, onlyAdds>>
    /\ Enter(p)
    /\ cleared' = {}
    /\ UNCHANGED marked

AddEvent2(p) ==
  \E fail \in BOOLEAN :
    /\ proc[p].pc = "AddEvent2"
    /\ db' = IF fail THEN db ELSE AddEventLog(db, proc[p].name)
    /\ SetProc(p, Return(Cmd(proc[p], fail), Nil, IF fail THEN StoreErr ELSE Nil))
    /\ conns' = Close(conns)
    /\ IF ~fail /\ solo = p /\ proc[p].name \in onlyAdds
       THEN /\ added' = [added EXCEPT ![proc[p].name] = <<proc[p].event>> \o @]
            /\ UNCHANGED onlyAdds
       ELSE Taint({proc[p].name})
    /\ UNCHANGED <<calls, pre, preMarked, solo, marked, cleared>>

GetFullErrorHistory1(p) ==
  \E fail \in BOOLEAN, order \in Orders(db.alertsWithErrors) :
    /\ CanCall(p)
    /\ SetProc(p, IF fail
                  THEN Return(Cmd(Call("GetFullErrorHistory", NoName, NoEvent), fail), Nil, StoreErr)
                  ELSE IF order = <<>>
                  THEN Return(Cmd(Call("GetFullErrorHistory", NoName, NoEvent), fail), EmptyMap, Nil)
                  ELSE [Goto(Cmd(Call("GetFullErrorHistory", NoName, NoEvent), fail),
                             "GetFullErrorHistory2")
                          EXCEPT !.alerts = order])
    /\ conns' = IF fail \/ order = <<>> THEN Close(GetConnection(conns)) ELSE GetConnection(conns)
    /\ Enter(p)
    /\ UNCHANGED <<db, marked, added, onlyAdds, cleared>>

\* One round of the loop over alerts: LRANGE, decode, results[a] = list.
GetFullErrorHistory2(p) ==
  \E fail \in BOOLEAN :
    LET a == Head(proc[p].alerts)
        rows == HistoryRows(db, a)
        res == [x \in DOMAIN proc[p].results \cup {a} |->
                  IF x = a THEN DecodeRows(rows) ELSE proc[p].results[x]]
    IN
    /\ proc[p].pc = "GetFullErrorHistory2"
    /\ SetProc(p, IF fail THEN Return(Cmd(proc[p], fail), Nil, StoreErr)
                  ELSE IF ~RowsDecodable(rows) THEN Return(Cmd(proc[p], fail), Nil, SerErr)
                  ELSE IF Tail(proc[p].alerts) = <<>> THEN Return(Cmd(proc[p], fail), res, Nil)
                  ELSE [Cmd(proc[p], fail) EXCEPT !.alerts = Tail(@), !.results = res])
    /\ conns' = IF fail \/ ~RowsDecodable(rows) \/ Tail(proc[p].alerts) = <<>>
                THEN Close(conns) ELSE conns
    /\ UNCHANGED <<db, calls, pre, preMarked, solo, marked, added, onlyAdds, cleared>>

ClearAlert1(p) ==
  \E n \in Names, fail \in BOOLEAN :
    /\ CanCall(p)
    /\ db' = IF fail THEN db ELSE ClearAlertSREM1(db, n)
    /\ SetProc(p, IF fail
                  THEN Return(Cmd(Call("ClearAlert", n, NoEvent), fail), Nil, StoreErr)
                  ELSE Goto(Cmd(Call("ClearAlert", n, NoEvent), fail), "ClearAlert2"))
    /\ conns' = IF fail THEN Close(GetConnection(conns)) ELSE GetConnection(conns)
    /\ Enter(p)
    /\ marked' = IF fail THEN marked ELSE marked \ {n}
    /\ Taint({n})
    /\ cleared' = {}

ClearAlert2(p) ==
  \E fail \in BOOLEAN :
    /\ proc[p].pc = "ClearAlert2"
    /\ db' = IF fail THEN db ELSE ClearAlertSREM2(db, proc[p].name)
    /\ SetProc(p, IF fail THEN Return(Cmd(proc[p], fail), Nil, StoreErr)
                  ELSE Goto(Cmd(proc[p], fail), "ClearAlert3"))
    /\ conns' = IF fail THEN Close(conns) ELSE conns
    /\ marked' = IF fail THEN marked ELSE marked \ {proc[p].name}
    /\ UNCHANGED <<calls, pre, preMarked, solo, added, onlyAdds, cleared>>

ClearAlert3(p) ==
  \E fail \in BOOLEAN :
    /\ proc[p].pc = "ClearAlert3"
    /\ db' = IF fail THEN db ELSE ClearAlertDEL(db, proc[p].name)
    /\ SetProc(p, IF fail THEN Return(Cmd(proc[p], fail), Nil, StoreErr)
                  ELSE Goto(Cmd(proc[p], fail), "ClearAlert4"))
    /\ conns' = IF fail THEN Close(conns) ELSE conns
    /\ marked' = IF fail THEN marked ELSE marked \ {proc[p].name}
    /\ UNCHANGED <<calls, pre, preMarked, solo, added, onlyAdds, cleared>>

ClearAlert4(p) ==
  \E fail \in BOOLEAN :
    /\ proc[p].pc = "ClearAlert4"
    /\ db' = IF fail THEN db ELSE ClearAlertLREM(db, proc[p].name)
    /\ SetProc(p, Return(Cmd(proc[p], fail), Nil, IF fail THEN StoreErr ELSE Nil))
    /\ conns' = Close(conns)
    /\ marked' = IF fail THEN marked ELSE marked \ {proc[p].name}
    /\ cleared' = IF ~fail /\ solo = p THEN {proc[p].name} ELSE {}
    /\ UNCHANGED <<calls, pre, preMarked, solo, added, onlyAdds>>

ClearAll1(p) ==
  \E fail \in BOOLEAN, order \in Orders(db.alertsWithErrors) :
    /\ CanCall(p)
    /\ SetProc(p, IF fail
                  THEN Return(Cmd(Call("ClearAll", NoName, NoEvent), fail), Nil, StoreErr)
                  ELSE [Goto(Cmd(Call("ClearAll", NoName, NoEvent), fail),
                             IF order = <<>> THEN "ClearAll3" ELSE "ClearAll2")
                          EXCEPT !.alerts = order])
    /\ conns' = IF fail THEN Close(GetConnection(conns)) ELSE GetConnection(conns)
    /\ Enter(p)
    /\ Taint(Names)
    /\ cleared' = {}
    /\ UNCHANGED <<db, marked>>

\* One round of the loop over alerts: DEL errors:a.
ClearAll2(p) ==
  \E fail \in BOOLEAN :
    /\ proc[p].pc = "ClearAll2"
    /\ db' = IF fail THEN db ELSE ClearAllDELHistory(db, Head(proc[p].alerts))
    /\ SetProc(p, IF fail THEN Return(Cmd(proc[p], fail), Nil, StoreErr)
                  ELSE [Goto(Cmd(proc[p], fail),
                             IF Tail(proc[p].alerts) = <<>> THEN "ClearAll3" ELSE "ClearAll2")
                          EXCEPT !.alerts = Tail(@)])
    /\ conns' = IF fail THEN Close(conns) ELSE conns
    /\ marked' = IF fail THEN marked ELSE {}
    /\ UNCHANGED <<calls, pre, preMarked, solo, added, onlyAdds, cleared>>

ClearAll3(p) ==
  \E fail \in BOOLEAN :
    /\ proc[p].pc = "ClearAll3"
    /\ db' = IF fail THEN db ELSE ClearAllDELWithErrors(db)
    /\ SetProc(p, IF fail THEN Return(Cmd(proc[p], fail), Nil, StoreErr)
                  ELSE Goto(Cmd(proc[p], fail), "ClearAll4"))
    /\ conns' = IF fail THEN Close(conns) ELSE conns
    /\ marked' = IF fail THEN marked ELSE {}
    /\ UNCHANGED <<calls, pre, preMarked, solo, added, onlyAdds, cleared>>

ClearAll4(p) ==
  \E fail \in BOOLEAN :
    /\ proc[p].pc = "ClearAll4"
    /\ db' = IF fail THEN db ELSE ClearAllDELFailing(db)
    /\ SetProc(p, IF fail THEN Return(Cmd(proc[p], fail), Nil, StoreErr)
                  ELSE Goto(Cmd(proc[p], fail), "ClearAll5"))
    /\ conns' = IF fail THEN Close(conns) ELSE conns
    /\ marked' = IF fail THEN marked ELSE {}
    /\ UNCHANGED <<calls, pre, preMarked, solo, added, onlyAdds, cleared>>

ClearAll5(p) ==
  \E fail \in BOOLEAN :
    /\ proc[p].pc = "ClearAll5"
    /\ db' = IF fail THEN db ELSE ClearAllDELEvents(db)
    /\ SetProc(p, Return(Cmd(proc[p], fail), Nil, IF fail THEN StoreErr ELSE Nil))
    /\ conns' = Close(conns)
    /\ marked' = IF fail THEN marked ELSE {}
    /\ cleared' = IF ~fail /\ solo = p THEN Names ELSE {}
    /\ UNCHANGED <<calls, pre, preMarked, solo, added, onlyAdds>>

\* ------------------------------------------------------------ specifications
Step(p) ==
  \/ MarkAlertSuccess(p)
  \/ MarkAlertFailure1(p)
  \/ MarkAlertFailure2(p)
  \/ GetFailingAlertCounts1(p)
  \/ GetFailingAlertCounts2(p)
  \/ GetFailingAlerts(p)
  \/ IsAlertFailing(p)
  \/ GetLastEvent(p)
  \/ UpdateLastEvent1(p)
  \/ UpdateLastEvent2(p)
  \/ UpdateLastEvent3(p)
  \/ AddEvent1(p)
  \/ AddEvent2(p)
  \/ GetFullErrorHistory1(p)
  \/ GetFullErrorHistory2(p)
  \/ ClearAlert1(p)
  \/ ClearAlert2(p)
  \/ ClearAlert3(p)
  \/ ClearAlert4(p)
  \/ ClearAll1(p)
  \/ ClearAll2(p)
  \/ ClearAll3(p)
  \/ ClearAll4(p)
  \/ ClearAll5(p)

\* One caller: the operations run one after another.
Next == Step("p1")

Spec == Init /\ [][Next]_vars

\* Two callers whose calls interleave command by command, on a store that
\* does not fail: the steps of Step, taken by either caller.
\* A step of caller p within the budget of the two callers, its command not failing.
Sound(p, A) ==
  /\ InProgress(p) \/ calls < MaxConcCalls
  /\ A
  /\ ~proc'[p].fault

ConcNext ==
  \E p \in Procs :
    \/ Sound(p, MarkAlertSuccess(p))
    \/ Sound(p, MarkAlertFailure1(p))
    \/ Sound(p, MarkAlertFailure2(p))
    \/ Sound(p, GetFailingAlertCounts1(p))
    \/ Sound(p, GetFailingAlertCounts2(p))
    \/ Sound(p, GetFailingAlerts(p))
    \/ Sound(p, IsAlertFailing(p))
    \/ Sound(p, GetLastEvent(p))
    \/ Sound(p, UpdateLastEvent1(p))
    \/ Sound(p, UpdateLastEvent2(p))
    \/ Sound(p, UpdateLastEvent3(p))
    \/ Sound(p, AddEvent1(p))
    \/ Sound(p, AddEvent2(p))
    \/ Sound(p, GetFullErrorHistory1(p))
    \/ Sound(p, GetFullErrorHistory2(p))
    \/ Sound(p, ClearAlert1(p))
    \/ Sound(p, ClearAlert2(p))
    \/ Sound(p, ClearAlert3(p))
    \/ Sound(p, ClearAlert4(p))
    \/ Sound(p, ClearAll1(p))
    \/ Sound(p, ClearAll2(p))
    \/ Sound(p, ClearAll3(p))
    \/ Sound(p, ClearAll4(p))
    \/ Sound(p, ClearAll5(p))

ConcSpec == Init /\ [][ConcNext]_vars

\* ------------------------------------------------------------------ claims
Done(p, o) == proc[p].pc = "done" /\ proc[p].op = o
\* The call o of p has returned, and ran with no other call in progress.
SoloDone(p, o) == Done(p, o) /\ solo = p
Ok(p) == proc[p].err = Nil
AllIdle == \A p \in Procs : Idle(p)
\* The entries of log equal to n.
Occurrences(log, n) == Cardinality({i \in 1..Len(log) : log[i] = n})

\* C1: a name whose MarkAlertFailure returned nil, with no MarkAlertSuccess or
\* ClearAlert of it and no ClearAll applied since, is in failingAlerts:
\* IsAlertFailing answers true for it and GetFailingAlerts lists it.
C1_MarkedIsFailing ==
  /\ marked \subseteq db.failingAlerts
  /\ \A p \in Procs :
       /\ (Done(p, "IsAlertFailing") /\ Ok(p) /\ proc[p].name \in marked)
            => proc[p].ret = TRUE
       /\ (Done(p, "GetFailingAlerts") /\ Ok(p)) => marked \subseteq proc[p].ret

C1_Witness ==
  /\ Done("p1", "IsAlertFailing") /\ Ok("p1")
  /\ proc["p1"].name \in marked
  /\ proc["p1"].ret = TRUE

\* C2 (as stated): a name written only by successful AddEvent calls is a key of
\* the map GetFullErrorHistory returns, with its added events newest first.
C2_OnlyAddedIsListed ==
  \A p \in Procs, n \in Names :
    (SoloDone(p, "GetFullErrorHistory") /\ Ok(p) /\ n \in onlyAdds /\ added[n] # <<>>)
      => (n \in DOMAIN proc[p].ret /\ proc[p].ret[n] = added[n])

\* C3: AddEvent(n, e) prepends e to the history of n and leaves the other
\* histories alone; a history written by AddEvent calls only is the added
\* events newest first, and GetLastEvent returns the last one added.
C3_AddEventPrepends ==
  /\ AllIdle =>
       \A n \in onlyAdds :
         db.errors[n] = [i \in 1..Len(added[n]) |-> Marshal(added[n][i]).bytes]
  /\ \A p \in Procs :
       /\ (SoloDone(p, "AddEvent") /\ Ok(p)) =>
            /\ db.errors[proc[p].name]
                 = <<Marshal(proc[p].event).bytes>> \o pre.errors[proc[p].name]
            /\ \A m \in Names \ {proc[p].name} : db.errors[m] = pre.errors[m]
       /\ (SoloDone(p, "GetLastEvent") /\ Ok(p) /\ proc[p].name \in onlyAdds
             /\ added[proc[p].name] # <<>>)
            => proc[p].ret = Head(added[proc[p].name])

C3_Witness ==
  /\ SoloDone("p1", "GetLastEvent") /\ Ok("p1")
  /\ proc["p1"].name \in onlyAdds
  /\ Len(added[proc["p1"].name]) = 2
  /\ added[proc["p1"].name][1] # added[proc["p1"].name][2]
  /\ proc["p1"].ret = added[proc["p1"].name][1]

\* C4 (as stated): from every history, the empty one included, a successful
\* UpdateLastEvent(n, e) leaves the length of the history unchanged, makes e its
\* head, keeps the elements below the head and adds one entry n to errorEvents.
C4_UpdateKeepsLengthAlways ==
  \A p \in Procs :
    (SoloDone(p, "UpdateLastEvent") /\ Ok(p)) =>
      /\ Len(db.errors[proc[p].name]) = Len(pre.errors[proc[p].name])
      /\ Head(db.errors[proc[p].name]) = Marshal(proc[p].event).bytes
      /\ Tail(db.errors[proc[p].name]) = Tail(pre.errors[proc[p].name])
      /\ db.errorEvents = <<proc[p].name>> \o pre.errorEvents

\* C4 (amended): on a non-empty history a successful UpdateLastEvent(n, e)
\* replaces the head by e, the length and the elements below it unchanged; on
\* an empty history it leaves the one-element history [e].  Either way
\* errorEvents grows by one entry n, which GetFailingAlertCounts reports, and
\* nothing else changes.
C4_UpdateReplacesHead ==
  \A p \in Procs :
    /\ (SoloDone(p, "UpdateLastEvent") /\ Ok(p)) =>
         /\ pre.errors[proc[p].name] # <<>> =>
              /\ Len(db.errors[proc[p].name]) = Len(pre.errors[proc[p].name])
              /\ Tail(db.errors[proc[p].name]) = Tail(pre.errors[proc[p].name])
         /\ pre.errors[proc[p].name] = <<>> => Len(db.errors[proc[p].name]) = 1
         /\ Head(db.errors[proc[p].name]) = Marshal(proc[p].event).bytes
         /\ \A m \in Names \ {proc[p].name} : db.errors[m] = pre.errors[m]
         /\ db.errorEvents = <<proc[p].name>> \o pre.errorEvents
         /\ db.failingAlerts = pre.failingAlerts
         /\ db.alertsWithErrors = pre.alertsWithErrors
    /\ (SoloDone(p, "GetFailingAlertCounts") /\ Ok(p)) =>
         proc[p].ret = <<Cardinality(pre.failingAlerts), Len(pre.errorEvents)>>

C4_Witness ==
  /\ SoloDone("p1", "UpdateLastEvent") /\ Ok("p1")
  /\ Len(pre.errors[proc["p1"].name]) = 2
  /\ Head(pre.errors[proc["p1"].name]) # Marshal(proc["p1"].event).bytes
  /\ Len(db.errors[proc["p1"].name]) = 2
  /\ Len(db.errorEvents) = Len(pre.errorEvents) + 1

\* C5: a ClearAlert(n) that returns nil leaves n out of both sets, its history
\* empty and no entry n in errorEvents; the other names keep their memberships
\* and histories, and errorEvents keeps their entries in order.  A
\* GetFailingAlerts or GetFullErrorHistory that follows does not list n.
C5_ClearAlertRemovesAll ==
  \A p \in Procs :
    /\ (SoloDone(p, "ClearAlert") /\ Ok(p)) =>
         /\ proc[p].name \notin db.failingAlerts
         /\ proc[p].name \notin db.alertsWithErrors
         /\ db.errors[proc[p].name] = <<>>
         /\ Occurrences(db.errorEvents, proc[p].name) = 0
         /\ db.failingAlerts = pre.failingAlerts \ {proc[p].name}
         /\ db.alertsWithErrors = pre.alertsWithErrors \ {proc[p].name}
         /\ \A m \in Names \ {proc[p].name} : db.errors[m] = pre.errors[m]
         /\ db.errorEvents = SelectSeq(pre.errorEvents, LAMBDA x : x # proc[p].name)
    /\ (Done(p, "GetFailingAlerts") /\ Ok(p)) => proc[p].ret \cap cleared = {}
    /\ (Done(p, "GetFullErrorHistory") /\ Ok(p)) => DOMAIN proc[p].ret \cap cleared = {}

C5_Witness ==
  /\ SoloDone("p1", "ClearAlert") /\ Ok("p1")
  /\ Occurrences(pre.errorEvents, proc["p1"].name) = 2
  /\ Len(pre.errorEvents) = 3
  /\ Len(db.errorEvents) = 1

\* C6: a ClearAll that returns nil leaves failingAlerts, alertsWithErrors and
\* errorEvents empty; the queries that follow return the empty set, the empty
\* map and the counts (0, 0).
C6_ClearAllEmpties ==
  \A p \in Procs :
    /\ (SoloDone(p, "ClearAll") /\ Ok(p)) =>
         /\ db.failingAlerts = {}
         /\ db.alertsWithErrors = {}
         /\ db.errorEvents = <<>>
    /\ (cleared = Names /\ Done(p, "GetFailingAlerts") /\ Ok(p)) => proc[p].ret = {}
    /\ (cleared = Names /\ Done(p, "GetFullErrorHistory") /\ Ok(p))
         => DOMAIN proc[p].ret = {}
    /\ (cleared = Names /\ Done(p, "GetFailingAlertCounts") /\ Ok(p))
         => proc[p].ret = <<0, 0>>

C6_Witness ==
  /\ SoloDone("p1", "ClearAll") /\ Ok("p1")
  /\ pre.failingAlerts # {}
  /\ pre.errorEvents # <<>>
  /\ db.failingAlerts = {} /\ db.alertsWithErrors = {} /\ db.errorEvents = <<>>

\* C7: MarkAlertSuccess(n) only takes n out of failingAlerts (nothing at all
\* when n is not in it); after a MarkAlertFailure(n) it leaves n not failing
\* but still in alertsWithErrors.  Neither MarkAlertSuccess nor
\* MarkAlertFailure changes a history or errorEvents.
C7_MarkSuccessOnlyUnfails ==
  \A p \in Procs :
    /\ (SoloDone(p, "MarkAlertSuccess") /\ Ok(p)) =>
         /\ db = [pre EXCEPT !.failingAlerts = @ \ {proc[p].name}]
         /\ proc[p].name \notin pre.failingAlerts => db = pre
         /\ proc[p].name \in preMarked =>
              /\ proc[p].name \notin db.failingAlerts
              /\ proc[p].name \in db.alertsWithErrors
    /\ (SoloDone(p, "MarkAlertSuccess") /\ ~proc[p].fault) => Ok(p)
    /\ (solo = p /\ proc[p].op \in {"MarkAlertSuccess", "MarkAlertFailure"}) =>
         /\ db.errors = pre.errors
         /\ db.errorEvents = pre.errorEvents

C7_Witness ==
  /\ SoloDone("p1", "MarkAlertSuccess") /\ Ok("p1")
  /\ proc["p1"].name \in preMarked
  /\ pre.errors[proc["p1"].name] # <<>>
  /\ proc["p1"].name \notin db.failingAlerts
  /\ proc["p1"].name \in db.alertsWithErrors

\* C8: GetLastEvent on an empty history returns the absent result with a nil
\* error and changes nothing; when the store fails it returns an error.
C8_AbsentIsNotAnError ==
  \A p \in Procs :
    SoloDone(p, "GetLastEvent") =>
      /\ db = pre
      /\ (~proc[p].fault /\ pre.errors[proc[p].name] = <<>>)
           => (proc[p].ret = Nil /\ proc[p].err = Nil)
      /\ proc[p].fault => proc[p].err # Nil

C8_Witness ==
  /\ SoloDone("p1", "GetLastEvent") /\ ~proc["p1"].fault
  /\ proc["p1"].name \in cleared
  /\ proc["p1"].ret = Nil /\ proc["p1"].err = Nil

\* C9: GetFullErrorHistory returns a map whose keys are alertsWithErrors and
\* whose value for a key is its whole history, decoded, in stored order (the
\* empty sequence for a key without history).
C9_FullHistoryIsWholeIndex ==
  \A p \in Procs :
    (SoloDone(p, "GetFullErrorHistory") /\ Ok(p)) =>
      /\ db = pre
      /\ DOMAIN proc[p].ret = pre.alertsWithErrors
      /\ \A n \in pre.alertsWithErrors :
           /\ Len(proc[p].ret[n]) = Len(pre.errors[n])
           /\ \A i \in 1..Len(pre.errors[n]) :
                Marshal(proc[p].ret[n][i]).bytes = pre.errors[n][i]

C9_Witness ==
  /\ SoloDone("p1", "GetFullErrorHistory") /\ Ok("p1")
  /\ DOMAIN proc["p1"].ret = Names
  /\ \E n \in Names : proc["p1"].ret[n] = <<>>
  /\ \E n \in Names : proc["p1"].ret[n] # <<>> /\ n \in db.failingAlerts

\* The keyspace d with the histories of the names in D deleted.
WithoutHistories(d, D) ==
  [d EXCEPT !.errors = [n \in Names |-> IF n \in D THEN <<>> ELSE d.errors[n]]]

\* C10: a call whose command k fails returns the store's error without issuing
\* another command, and the writes of its commands before k stay: the keyspace
\* is the one the call was entered in changed by those k - 1 commands alone.
\* A serialization failure in AddEvent/UpdateLastEvent issues no command and
\* leaves the keyspace as it was.
C10_FailureKeepsEarlierWrites ==
  \A p \in Procs :
    LET n == proc[p].name
        m == Marshal(proc[p].event).bytes
        k == proc[p].step
        c == Cardinality(pre.alertsWithErrors)
        popped == IF pre.errors[n] = <<>> THEN <<>> ELSE Tail(pre.errors[n])
    IN
    /\ InProgress(p) => ~proc[p].fault
    /\ (proc[p].pc = "done" /\ proc[p].fault) => proc[p].err = StoreErr
    /\ (SoloDone(p, "MarkAlertFailure") /\ proc[p].fault) =>
         /\ k = 1 => db = pre
         /\ k = 2 => db = [pre EXCEPT !.alertsWithErrors = @ \cup {n}]
         /\ k \in 1..2
    /\ (SoloDone(p, "AddEvent") /\ proc[p].fault) =>
         /\ k = 1 => db = pre
         /\ k = 2 => db = [pre EXCEPT !.errors[n] = <<m>> \o @]
         /\ k \in 1..2
    /\ (SoloDone(p, "UpdateLastEvent") /\ proc[p].fault) =>
         /\ k = 1 => db = pre
         /\ k = 2 => db = [pre EXCEPT !.errors[n] = popped]
         /\ k = 3 => db = [pre EXCEPT !.errors[n] = <<m>> \o popped]
         /\ k \in 1..3
    /\ (SoloDone(p, "ClearAlert") /\ proc[p].fault) =>
         /\ k = 1 => db = pre
         /\ k = 2 => db = [pre EXCEPT !.alertsWithErrors = @ \ {n}]
         /\ k = 3 => db = [pre EXCEPT !.alertsWithErrors = @ \ {n},
                                      !.failingAlerts = @ \ {n}]
         /\ k = 4 => db = [pre EXCEPT !.alertsWithErrors = @ \ {n},
                                      !.failingAlerts = @ \ {n},
                                      !.errors[n] = <<>>]
         /\ k \in 1..4
    /\ (SoloDone(p, "ClearAll") /\ proc[p].fault) =>
         /\ k = 1 => db = pre
         /\ k \in 2..(c + 2) =>
              \E D \in SUBSET pre.alertsWithErrors :
                Cardinality(D) = k - 2 /\ db = WithoutHistories(pre, D)
         /\ k = c + 3 =>
              db = [WithoutHistories(pre, pre.alertsWithErrors)
                      EXCEPT !.alertsWithErrors = {}]
         /\ k = c + 4 =>
              db = [WithoutHistories(pre, pre.alertsWithErrors)
                      EXCEPT !.alertsWithErrors = {}, !.failingAlerts = {}]
         /\ k \in 1..(c + 4)
    /\ (SoloDone(p, "AddEvent") \/ SoloDone(p, "UpdateLastEvent")) =>
         /\ proc[p].err = SerErr => (db = pre /\ k = 0)
         /\ ~Marshal(proc[p].event).ok => proc[p].err = SerErr

C10_Witness ==
  /\ SoloDone("p1", "MarkAlertFailure") /\ proc["p1"].fault
  /\ proc["p1"].step = 2
  /\ proc["p1"].err = StoreErr
  /\ proc["p1"].name \notin pre.alertsWithErrors
  /\ proc["p1"].name \in db.alertsWithErrors
  /\ proc["p1"].name \notin db.failingAlerts

\* C11: every operation takes one connection and gives it back on every exit
\* path (success, serialization error, store error at any command, early
\* return inside the loops): the connections outstanding are as many as the
\* calls in progress, so none is outstanding when every call has returned.
C11_ConnectionsAreReleased ==
  /\ conns = Cardinality({p \in Procs : InProgress(p)})
  /\ AllIdle => conns = 0

\* ClearAll returned from inside its loop on a failed DEL of a history.
C11_Witness ==
  /\ SoloDone("p1", "ClearAll") /\ proc["p1"].fault
  /\ proc["p1"].err = StoreErr
  /\ pre.alertsWithErrors # {}
  /\ proc["p1"].step = 2
  /\ conns = 0

\* C12: in every reachable state a name is in alertsWithErrors if and only
\* if its history has been written and not yet cleared (the list errors:name
\* exists, that is, it is not empty).
C12_IndexedIffHistory ==
  \A n \in Names : n \in db.alertsWithErrors <=> db.errors[n] # <<>>

\* C13: in every reachable state, the states between the commands of an
\* operation included, every member of failingAlerts is a member of
\* alertsWithErrors.
C13_FailingIsIndexed == db.failingAlerts \subseteq db.alertsWithErrors

\* q's GetLastEvent(n) ran while p's UpdateLastEvent(n, e) was under way, on
\* the history of n that pre records (the store when p's call was entered).
ReadDuringUpdate(p, q, n) ==
  /\ p # q /\ overlap = 2
  /\ proc[p].op = "UpdateLastEvent" /\ proc[p].pc # "idle" /\ proc[p].name = n
  /\ Marshal(proc[p].event).ok
  /\ Done(q, "GetLastEvent") /\ proc[q].name = n

\* C14: index 0 of the history of n is always the event of the most recent
\* AddEvent/UpdateLastEvent on n: a GetLastEvent(n) that runs concurrently
\* with UpdateLastEvent(n, e) on a non-empty history returns the previous
\* head or e, never an older event and never the absent result.
C14_ReadSeesPreviousHeadOrNew ==
  \A p, q \in Procs : \A n \in Names :
    (ReadDuringUpdate(p, q, n) /\ pre.errors[n] # <<>>) =>
      /\ proc[q].err = Nil
      /\ proc[q].ret \in {Unmarshal(pre.errors[n][1]).ev, proc[p].event}

RECURSIVE Total(_, _)
\* The sum of f over the names in S.
Total(f, S) ==
  IF S = {} THEN 0
  ELSE LET n == CHOOSE n \in S : TRUE IN f[n] + Total(f, S \ {n})

\* C15: with no operation in progress and no store failure so far, the length
\* of errorEvents is the number of AddEvent and UpdateLastEvent calls
\* completed since the last ClearAll, less the entries of the names removed
\* by ClearAlert; nothing else reduces it.
C15_LogCountsWrites ==
  (AllIdle /\ ~faulty) =>
    /\ \A n \in Names : Occurrences(db.errorEvents, n) = logged[n]
    /\ Len(db.errorEvents) = Total(logged, Names)

\* An update of a one-element history: two log entries, one history element.
C15_Witness ==
  /\ AllIdle /\ ~faulty
  /\ Done("p1", "UpdateLastEvent") /\ Ok("p1")
  /\ logged[proc["p1"].name] = 2
  /\ Len(db.errors[proc["p1"].name]) = 1
  /\ Len(db.errorEvents) = 2

\* C16: ClearAll can interleave with another caller's MarkAlertFailure(n),
\* issued after its AddEvent(n, e), without any store failure, so that every
\* call returns nil and n is partially cleared: its history is deleted and n
\* is still in failingAlerts. A name that is failing when a ClearAll that
\* overlapped one other call has returned nil is there because that call is a
\* MarkAlertFailure of the name whose write to failingAlerts landed after
\* ClearAll's DEL failingAlerts.
C16_SurvivorIsLateWrite ==
  \A p, q \in Procs : \A n \in Names :
    (p # q /\ overlap = 2 /\ Done(p, "ClearAll") /\ Ok(p) /\ n \in db.failingAlerts) =>
      /\ Done(q, "MarkAlertFailure") /\ Ok(q)
      /\ proc[q].name = n

\* The partially cleared state: the history of n, present when the two calls
\* began, is deleted, n is not indexed any more and n is failing.
C16_Witness ==
  /\ AllIdle /\ ~faulty /\ overlap = 2
  /\ Done("p1", "ClearAll") /\ Ok("p1")
  /\ Done("p2", "MarkAlertFailure") /\ Ok("p2")
  /\ pre.errors[proc["p2"].name] # <<>>
  /\ db.errors[proc["p2"].name] = <<>>
  /\ proc["p2"].name \notin db.alertsWithErrors
  /\ proc["p2"].name \in db.failingAlerts

\* C17: after ClearAll has returned nil, with no other call under way, the
\* history of every name is empty and GetLastEvent on it returns the absent
\* result, names that recorded events without being marked failing included.
C17_ClearAllEmptiesEveryHistory ==
  \A p \in Procs : \A n \in Names :
    (SoloDone(p, "ClearAll") /\ Ok(p)) =>
      /\ db.errors[n] = <<>>
      /\ LastEvent(db, n, FALSE) = [ret |-> Nil, err |-> Nil]

\* The store after one uninterrupted call o(n, e) that returns nil, from store d.
Single(o, n, e, d) ==
  LET m == Marshal(e).bytes IN
  CASE o = "MarkAlertFailure" -> MarkAlertFailureSADD2(MarkAlertFailureSADD1(d, n), n)
    [] o = "AddEvent" -> AddEventLog(AddEventLPUSH(d, n, m), n)
    [] o = "UpdateLastEvent" ->
         UpdateLastEventLog(UpdateLastEventLPUSH(UpdateLastEventLPOP(d, n), n, m), n)
    [] o = "ClearAlert" ->
         ClearAlertLREM(ClearAlertDEL(ClearAlertSREM2(ClearAlertSREM1(d, n), n), n), n)
    [] o = "ClearAll" ->
         ClearAllDELEvents(ClearAllDELFailing(ClearAllDELWithErrors(
           WithoutHistories(d, d.alertsWithErrors))))
    [] OTHER -> d

Retried == {"MarkAlertFailure", "AddEvent", "UpdateLastEvent", "ClearAlert", "ClearAll"}
Copies(m, k) == [i \in 1..k |-> m]
Drop(s, k) == IF k >= Len(s) THEN <<>> ELSE SubSeq(s, k + 1, Len(s))

\* C18: a call of MarkAlertFailure, AddEvent, UpdateLastEvent, ClearAlert or
\* ClearAll that aborts on a store error and is retried with the same
\* arguments until it returns nil, nothing else interleaved, leaves the store
\* as one uninterrupted successful call from the original store would.
C18_RetryConverges ==
  \A p \in Procs :
    (solo = p /\ proc[p].pc = "done" /\ proc[p].op \in Retried /\ Ok(p)) =>
      db = Single(proc[p].op, proc[p].name, proc[p].event, orig)

\* C18 as amended: MarkAlertFailure, ClearAlert and ClearAll retried so end
\* as one successful call from the original store; AddEvent ends with one
\* more copy of the event in the history for every attempt that failed on
\* its second command, and UpdateLastEvent with one more element below the
\* old head removed for every such attempt; both log the name once.
C18_RetryConvergesButForEvents ==
  \A p \in Procs :
    LET n == proc[p].name
        m == Marshal(proc[p].event).bytes
    IN
    (solo = p /\ proc[p].pc = "done" /\ Ok(p)) =>
      /\ proc[p].op = "MarkAlertFailure" =>
           db = [orig EXCEPT !.alertsWithErrors = @ \cup {n}, !.failingAlerts = @ \cup {n}]
      /\ proc[p].op = "ClearAlert" =>
           db = [orig EXCEPT !.alertsWithErrors = @ \ {n}, !.failingAlerts = @ \ {n},
                             !.errors[n] = <<>>,
                             !.errorEvents = SelectSeq(@, LAMBDA x : x # n)]
      /\ proc[p].op = "ClearAll" =>
           db = [failingAlerts |-> {}, alertsWithErrors |-> {}, errorEvents |-> <<>>,
                 errors |-> [a \in Names |-> IF a \in orig.alertsWithErrors THEN <<>>
                                             ELSE orig.errors[a]]]
      /\ proc[p].op = "AddEvent" =>
           db = [orig EXCEPT !.errors[n] = Copies(m, partial + 1) \o @,
                             !.errorEvents = <<n>> \o @]
      /\ proc[p].op = "UpdateLastEvent" =>
           db = [orig EXCEPT !.errors[n] = <<m>> \o Drop(@, partial + 1),
                             !.errorEvents = <<n>> \o @]

\* UpdateLastEvent failed on its LPUSH and was retried: of a history of two
\* events only the new event is left.
C18_Witness ==
  /\ SoloDone("p1", "UpdateLastEvent") /\ Ok("p1")
  /\ partial = 1
  /\ Len(orig.errors[proc["p1"].name]) = 2
  /\ Len(db.errors[proc["p1"].name]) = 1

\* The two callers' UpdateLastEvent(n, .) calls overlapped and both returned
\* nil; pre is the store before the first of them was entered.
TwoUpdates(p, q, n) ==
  /\ p # q /\ overlap = 2
  /\ Done(p, "UpdateLastEvent") /\ Ok(p) /\ proc[p].name = n
  /\ Done(q, "UpdateLastEvent") /\ Ok(q) /\ proc[q].name = n

\* C19: however two UpdateLastEvent(n, .) calls of different callers
\* interleave on a history of length L >= 1, with no store failure, the final
\* history has length L, its elements below the head are those present
\* before, its head is the event of one of the two calls, and errorEvents has
\* gained exactly two entries n.
C19_TwoUpdatesKeepHistory ==
  \A p, q \in Procs : \A n \in Names :
    (TwoUpdates(p, q, n) /\ pre.errors[n] # <<>>) =>
      /\ Len(db.errors[n]) = Len(pre.errors[n])
      /\ Tail(db.errors[n]) = Tail(pre.errors[n])
      /\ Head(db.errors[n]) \in {Marshal(proc[p].event).bytes, Marshal(proc[q].event).bytes}
      /\ db.errorEvents = <<n, n>> \o pre.errorEvents

\* C20: with no operation in progress and no store failure so far, errorEvents
\* holds each name at least as many times as the name's history is long.
C20_LogCoversHistory ==
  (AllIdle /\ ~faulty) =>
    \A n \in Names : Occurrences(db.errorEvents, n) >= Len(db.errors[n])

====
